---- MODULE Spec2Model ----
(***************************************************************************)
(* A model of the Secure Authentication System (src/final.cpp): the        *)
(* password strength checker, the libsodium based password hasher, the     *)
(* users.txt credential store and the menu / login / registration loop.    *)
(*                                                                         *)
(* A std::string is a sequence of character codes (ASCII).  A function     *)
(* that can throw returns a record [threw |-> ..., val |-> ...].           *)
(***************************************************************************)
EXTENDS Integers, Sequences, FiniteSets, TLC

VARIABLES
    pc,      \* position of the running program / of the harness
    users,   \* Database::users : username -> <<hash, salt>>
    file,    \* users.txt : [exists, data], data the characters of the file
    out,     \* the messages printed by the last step, in order
    call,    \* the last operation called, with its arguments and pre-state
    ret,     \* what that operation returned
    first,   \* history: username -> <<hash, salt>> of its successful addUser
    regUser, \* registrationScreen's local `username' while a password is asked
    regPass, \* history: username -> the password its registration was given
    sodium   \* libsodium: "uninit", "ok" once sodium_init() succeeded, "failed"

vars == <<pc, users, file, out, call, ret, first, regUser, regPass, sodium>>

\* ------------------------------------------------------------------ bounds

\* passwords of the checker harness are a head of at most MaxHead characters
\* followed by at most MaxPad repetitions of one character
MaxHead == 3
MaxPad == 13

\* ------------------------------------------------------------- characters

Comma == 44
Newline == 10

\* <cctype>, "C" locale, on 7-bit characters
islower(c) == c \in 97..122
isupper(c) == c \in 65..90
isdigit(c) == c \in 48..57
isalnum(c) == islower(c) \/ isupper(c) \/ isdigit(c)

NoVal == <<>>
Empty == << >>

Min(a, b) == IF a < b THEN a ELSE b

\* ------------------------------------------------- StandardPasswordChecker

MinLength == 12

\* the classification loop shared by checkStrength and
\* calculateStrengthPercentage: one pass, an if / else-if chain per character
RECURSIVE ClassifyFrom(_, _, _)
ClassifyFrom(pw, i, acc) ==
    IF i > Len(pw) THEN acc
    ELSE LET c == pw[i]
             nxt == IF islower(c) THEN [acc EXCEPT !.hasLower = TRUE]
                    ELSE IF isupper(c) THEN [acc EXCEPT !.hasUpper = TRUE]
                    ELSE IF isdigit(c) THEN [acc EXCEPT !.hasDigit = TRUE]
                    ELSE [acc EXCEPT !.hasSpecial = TRUE]
         IN  ClassifyFrom(pw, i + 1, nxt)

Classify(pw) ==
    ClassifyFrom(pw, 1, [hasLower |-> FALSE, hasUpper |-> FALSE,
                         hasDigit |-> FALSE, hasSpecial |-> FALSE])

\* a checkStrength that returns before the classes are looked at only when
\* the password is shorter than 11 characters (off by one)
checkStrength_offByOne(pw) ==
    IF Len(pw) < MinLength - 1
    THEN [ok |-> FALSE, msgs |-> <<"Password length must be at least 12 characters!">>]
    ELSE LET k == Classify(pw)
             all == k.hasLower /\ k.hasUpper /\ k.hasDigit /\ k.hasSpecial
         IN  [ok |-> all,
              msgs |-> (IF k.hasLower THEN <<>> ELSE <<"Missing lowercase character">>)
                    \o (IF k.hasUpper THEN <<>> ELSE <<"Missing uppercase character">>)
                    \o (IF k.hasDigit THEN <<>> ELSE <<"Missing digit">>)
                    \o (IF k.hasSpecial THEN <<>> ELSE <<"Missing special character">>)
                    \o (IF all THEN <<"Valid password!">> ELSE <<>>)]

\* a checkStrength whose digit diagnostic is printed under the wrong flag
checkStrength_wrongDiag(pw) ==
    IF Len(pw) < MinLength
    THEN [ok |-> FALSE, msgs |-> <<"Password length must be at least 12 characters!">>]
    ELSE LET k == Classify(pw)
             all == k.hasLower /\ k.hasUpper /\ k.hasDigit /\ k.hasSpecial
         IN  [ok |-> all,
              msgs |-> (IF k.hasLower THEN <<>> ELSE <<"Missing lowercase character">>)
                    \o (IF k.hasUpper THEN <<>> ELSE <<"Missing uppercase character">>)
                    \o (IF k.hasUpper THEN <<>> ELSE <<"Missing digit">>)
                    \o (IF k.hasSpecial THEN <<>> ELSE <<"Missing special character">>)
                    \o (IF all THEN <<"Valid password!">> ELSE <<>>)]

\* StandardPasswordChecker::checkStrength: the verdict and what it prints
checkStrength(pw) ==
    IF Len(pw) < MinLength
    THEN [ok |-> FALSE, msgs |-> <<"Password length must be at least 12 characters!">>]
    ELSE LET k == Classify(pw)
             all == k.hasLower /\ k.hasUpper /\ k.hasDigit /\ k.hasSpecial
         IN  [ok |-> all,
              msgs |-> (IF k.hasLower THEN <<>> ELSE <<"Missing lowercase character">>)
                    \o (IF k.hasUpper THEN <<>> ELSE <<"Missing uppercase character">>)
                    \o (IF k.hasDigit THEN <<>> ELSE <<"Missing digit">>)
                    \o (IF k.hasSpecial THEN <<>> ELSE <<"Missing special character">>)
                    \o (IF all THEN <<"Valid password!">> ELSE <<>>)]

LengthCap == 40
ClassPoints == 15
ScoreCap == 100

\* (int)(pw.length() * 3.33): the product truncated towards zero
LengthPoints(n) == (n * 333) \div 100

\* a calculateStrengthPercentage that gives a class 10 points instead of 15
calculateStrengthPercentage_tenPoints(pw) ==
    LET k == Classify(pw)
        s0 == Min(LengthCap, LengthPoints(Len(pw)))
        s1 == s0 + (IF k.hasLower THEN 10 ELSE 0)
        s2 == s1 + (IF k.hasUpper THEN 10 ELSE 0)
        s3 == s2 + (IF k.hasDigit THEN 10 ELSE 0)
        s4 == s3 + (IF k.hasSpecial THEN 10 ELSE 0)
    IN  Min(ScoreCap, s4)

\* StandardPasswordChecker::calculateStrengthPercentage
calculateStrengthPercentage(pw) ==
    LET k == Classify(pw)
        s0 == Min(LengthCap, LengthPoints(Len(pw)))
        s1 == s0 + (IF k.hasLower THEN ClassPoints ELSE 0)
        s2 == s1 + (IF k.hasUpper THEN ClassPoints ELSE 0)
        s3 == s2 + (IF k.hasDigit THEN ClassPoints ELSE 0)
        s4 == s3 + (IF k.hasSpecial THEN ClassPoints ELSE 0)
    IN  Min(ScoreCap, s4)

\* --------------------------------------------------------- checker harness

\* one character of each class: 'a', 'Q', '7', '!'
PwAlphabet == {97, 81, 55, 33}

RECURSIVE SeqsUpTo(_, _)
SeqsUpTo(S, n) ==
    IF n = 0 THEN {<<>>}
    ELSE LET shorter == SeqsUpTo(S, n - 1)
         IN  shorter \cup {Append(s, c) : s \in {t \in shorter : Len(t) = n - 1}, c \in S}

Rep(c, k) == [i \in 1..k |-> c]

PwInputs ==
    {h \o Rep(c, k) : h \in SeqsUpTo(PwAlphabet, MaxHead), c \in PwAlphabet, k \in 0..MaxPad}

InitChecker ==
    /\ pc = "checker"
    /\ users = Empty
    /\ file = [exists |-> FALSE, data |-> <<>>]
    /\ out = <<>>
    /\ call \in {[op |-> "none", pw |-> p] : p \in PwInputs}
    /\ ret = NoVal
    /\ first = Empty
    /\ regUser = <<>>
    /\ regPass = Empty
    /\ sodium = "ok"

CallCheckStrength ==
    /\ pc = "checker"
    /\ LET r == checkStrength(call.pw)
       IN  /\ ret' = r.ok
           /\ out' = r.msgs
    /\ call' = [call EXCEPT !.op = "checkStrength"]
    /\ UNCHANGED <<pc, users, file, first, regUser, regPass, sodium>>

CallCalculateStrengthPercentage ==
    /\ pc = "checker"
    /\ ret' = calculateStrengthPercentage(call.pw)
    /\ out' = <<>>
    /\ call' = [call EXCEPT !.op = "calculateStrengthPercentage"]
    /\ UNCHANGED <<pc, users, file, first, regUser, regPass, sodium>>

NextChecker == CallCheckStrength \/ CallCalculateStrengthPercentage

SpecChecker == InitChecker /\ [][NextChecker]_vars

\* ------------------------------------------------ claims on the checker

HasLower(p) == \E i \in 1..Len(p) : p[i] \in 97..122
HasUpper(p) == \E i \in 1..Len(p) : p[i] \in 65..90
HasDigit(p) == \E i \in 1..Len(p) : p[i] \in 48..57
IsLetter(c) == c \in (65..90) \cup (97..122)
HasSpecial(p) == \E i \in 1..Len(p) : ~IsLetter(p[i]) /\ p[i] \notin 48..57

Present(p) ==
    (IF HasLower(p) THEN {"lowercase"} ELSE {}) \cup (IF HasUpper(p) THEN {"uppercase"} ELSE {})
    \cup (IF HasDigit(p) THEN {"digit"} ELSE {}) \cup (IF HasSpecial(p) THEN {"special"} ELSE {})

Categories == {"lowercase", "uppercase", "digit", "special"}
Missing(p) == Categories \ Present(p)

Diagnostic(cat) ==
    CASE cat = "lowercase" -> "Missing lowercase character"
      [] cat = "uppercase" -> "Missing uppercase character"
      [] cat = "digit" -> "Missing digit"
      [] cat = "special" -> "Missing special character"

Printed == {out[i] : i \in 1..Len(out)}
NoRepeat(s) == \A i, j \in 1..Len(s) : s[i] = s[j] => i = j

\* C5: checkStrength(p) is true exactly when p has at least 12 characters and
\* holds a lowercase letter, an uppercase letter, a digit and a character that
\* is neither a letter nor a digit; so it is false for every p shorter than 12.
C5_CheckStrengthIff ==
    call.op = "checkStrength" =>
        /\ ret = (Len(call.pw) >= 12 /\ Missing(call.pw) = {})
        /\ (Len(call.pw) < 12 => ret = FALSE)

C5_Witness ==
    /\ call.op = "checkStrength" /\ ret = TRUE
    /\ Len(call.pw) = 12 /\ Missing(call.pw) = {}

\* C6 as stated: for a password of ANY length that lacks one of the four
\* classes, checkStrength is false and prints the diagnostic of every class
\* that is missing.
C6_Original ==
    (call.op = "checkStrength" /\ Missing(call.pw) # {}) =>
        /\ ret = FALSE
        /\ \A cat \in Missing(call.pw) : Diagnostic(cat) \in Printed

\* C6 amended: for a password of at least 12 characters that lacks a class,
\* checkStrength is false and prints exactly one diagnostic per missing class
\* (and none for a class that is present); a password shorter than 12 is
\* rejected with the length diagnostic alone, whatever classes it lacks.
C6_DiagnosticsFromTwelve ==
    call.op = "checkStrength" =>
        /\ (Len(call.pw) >= 12 /\ Missing(call.pw) # {}) =>
              /\ ret = FALSE
              /\ \A cat \in Categories : (Diagnostic(cat) \in Printed) = (cat \in Missing(call.pw))
              /\ Len(out) = Cardinality(Missing(call.pw))
              /\ NoRepeat(out)
        /\ Len(call.pw) < 12 =>
              /\ ret = FALSE
              /\ out = <<"Password length must be at least 12 characters!">>

C6_Witness ==
    /\ call.op = "checkStrength" /\ ret = FALSE
    /\ Len(call.pw) >= 12 /\ Cardinality(Missing(call.pw)) = 2
    /\ Len(out) = 2

\* round(n * 3.33), halves up
Round333(n) == (n * 333 + 50) \div 100
\* the largest integer not above n * 3.33
Floor333(n) == CHOOSE m \in 0..(4 * n) : 100 * m <= 333 * n /\ 333 * n < 100 * (m + 1)

\* C7 as stated: the score is min(100, min(40, round(length * 3.33)) + 15 k),
\* k the number of classes present, and lies in 0..100.
C7_Original ==
    call.op = "calculateStrengthPercentage" =>
        /\ ret = Min(100, Min(40, Round333(Len(call.pw))) + 15 * Cardinality(Present(call.pw)))
        /\ ret \in 0..100

\* C7 amended: the score is min(100, min(40, floor(length * 3.33)) + 15 k),
\* the length product truncated and not rounded, and lies in 0..100.
C7_ScoreTruncates ==
    call.op = "calculateStrengthPercentage" =>
        /\ ret = Min(100, Min(40, Floor333(Len(call.pw))) + 15 * Cardinality(Present(call.pw)))
        /\ ret \in 0..100

C7_Witness ==
    /\ call.op = "calculateStrengthPercentage"
    /\ Len(call.pw) = 12 /\ Cardinality(Present(call.pw)) = 4 /\ ret = 99

\* ----------------------------------------------------------- std::string

\* s.substr(pos, n), pos counted from 0: throws when pos is beyond the end
substr(s, pos, n) ==
    IF pos > Len(s)
    THEN [threw |-> "out_of_range", val |-> <<>>]
    ELSE [threw |-> "none", val |-> SubSeq(s, pos + 1, Min(pos + n, Len(s)))]

\* s.substr(pos): the rest of the string from pos
substrFrom(s, pos) ==
    IF pos > Len(s)
    THEN [threw |-> "out_of_range", val |-> <<>>]
    ELSE [threw |-> "none", val |-> SubSeq(s, pos + 1, Len(s))]

isspace(c) == c \in {32, 9, 10, 11, 12, 13}

\* the value of a hexadecimal digit, -1 for any other character
HexVal(c) ==
    IF c \in 48..57 THEN c - 48
    ELSE IF c \in 97..102 THEN c - 87
    ELSE IF c \in 65..70 THEN c - 55
    ELSE -1

RECURSIVE SkipSpace(_, _)
SkipSpace(s, i) ==
    IF i <= Len(s) /\ isspace(s[i]) THEN SkipSpace(s, i + 1) ELSE i

\* the digits strtol consumes from position i on: [n |-> how many, v |-> value]
RECURSIVE HexDigits(_, _, _)
HexDigits(s, i, acc) ==
    IF i <= Len(s) /\ HexVal(s[i]) >= 0
    THEN HexDigits(s, i + 1, [n |-> acc.n + 1, v |-> acc.v * 16 + HexVal(s[i])])
    ELSE acc

\* std::stoi(s, nullptr, 16): leading white space, an optional sign, an
\* optional 0x prefix, then as many hexadecimal digits as there are; throws
\* invalid_argument when there is no digit.  (The strings it is given here
\* have at most two characters, so the value always fits an int.)
stoi16(s) ==
    LET i0 == SkipSpace(s, 1)
        signed == i0 <= Len(s) /\ s[i0] \in {43, 45}
        neg == i0 <= Len(s) /\ s[i0] = 45
        i1 == IF signed THEN i0 + 1 ELSE i0
        prefixed == /\ i1 + 2 <= Len(s)
                    /\ s[i1] = 48 /\ s[i1 + 1] \in {120, 88}
                    /\ HexVal(s[i1 + 2]) >= 0
        i2 == IF prefixed THEN i1 + 2 ELSE i1
        d == HexDigits(s, i2, [n |-> 0, v |-> 0])
    IN  IF d.n = 0
        THEN [threw |-> "invalid_argument", val |-> 0]
        ELSE [threw |-> "none", val |-> IF neg THEN 0 - d.v ELSE d.v]

\* ---------------------------------------------------------- PasswordHasher

SaltBytes == 16
HashBytes == 32

\* snprintf("%02x"): one byte as two lowercase hexadecimal digits
HexDigit(n) == IF n < 10 THEN 48 + n ELSE 87 + n
HexEncode(bytes) ==
    [i \in 1..(2 * Len(bytes)) |->
        IF i % 2 = 1 THEN HexDigit(bytes[(i + 1) \div 2] \div 16)
        ELSE HexDigit(bytes[i \div 2] % 16)]

\* PasswordHasher::generateSalt, `bytes' what randombytes_buf filled in
generateSalt(bytes) == HexEncode(bytes)

\* libsodium's crypto_pwhash (Argon2) when it succeeds: a deterministic
\* function of the password and the 16 salt bytes, taken to be free of
\* collisions (no two inputs of at most 16 password characters share a digest)
crypto_pwhash(password, salt) ==
    [i \in 1..HashBytes |->
        IF i <= Len(salt) THEN salt[i]
        ELSE IF i - Len(salt) <= Len(password) THEN password[i - Len(salt)]
        ELSE 0]

\* the salt decoding loop of hashPassword: byte i is stoi of the two
\* characters at 2i, converted to unsigned char; the first exception ends it
RECURSIVE DecodeSalt(_, _, _)
DecodeSalt(salt_hex, i, acc) ==
    IF i >= SaltBytes THEN [threw |-> "none", val |-> acc]
    ELSE LET sub == substr(salt_hex, i * 2, 2)
         IN  IF sub.threw # "none" THEN [threw |-> sub.threw, val |-> acc]
             ELSE LET n == stoi16(sub.val)
                  IN  IF n.threw # "none" THEN [threw |-> n.threw, val |-> acc]
                      ELSE DecodeSalt(salt_hex, i + 1, Append(acc, n.val % 256))

\* PasswordHasher::hashPassword; kdfOk: crypto_pwhash returned 0
hashPassword(password, salt_hex, kdfOk) ==
    LET salt == DecodeSalt(salt_hex, 0, <<>>)
    IN  IF salt.threw # "none" THEN [threw |-> salt.threw, val |-> <<>>]
        ELSE IF ~kdfOk THEN [threw |-> "runtime_error", val |-> <<>>]
        ELSE [threw |-> "none", val |-> HexEncode(crypto_pwhash(password, salt.val))]

\* a verifyPassword without its try / catch: the exception reaches the caller
verifyPassword_noCatch(password, hash, salt, kdfOk) ==
    LET h == hashPassword(password, salt, kdfOk)
    IN  IF h.threw # "none" THEN [threw |-> h.threw, val |-> FALSE]
        ELSE [threw |-> "none", val |-> (hash = h.val)]

\* a verifyPassword that passes the stored hash where the salt belongs
verifyPassword_swapped(password, hash, salt, kdfOk) ==
    LET h == hashPassword(password, hash, kdfOk)
    IN  IF h.threw # "none" THEN [threw |-> "none", val |-> FALSE]
        ELSE [threw |-> "none", val |-> (salt = h.val)]

\* PasswordHasher::verifyPassword: catch (...) turns any exception into false
verifyPassword(password, hash, salt, kdfOk) ==
    LET h == hashPassword(password, salt, kdfOk)
    IN  IF h.threw # "none" THEN [threw |-> "none", val |-> FALSE]
        ELSE [threw |-> "none", val |-> (hash = h.val)]

\* ---------------------------------------------------------- hasher harness

\* how many different values randombytes_buf can return in the model
NumSalts == 2

RandomSalts ==
    {[i \in 1..SaltBytes |-> (37 * n + 11 * i) % 256] : n \in 1..NumSalts}

\* "Str0ng!Passw0rd", "str0ng!passw0rd" and "Correct#Horse7"
PwStrong == <<83, 116, 114, 48, 110, 103, 33, 80, 97, 115, 115, 119, 48, 114, 100>>
PwLower == <<115, 116, 114, 48, 110, 103, 33, 112, 97, 115, 115, 119, 48, 114, 100>>
PwOther == <<67, 111, 114, 114, 101, 99, 116, 35, 72, 111, 114, 115, 101, 55>>
\* "abc"
PwWeak == <<97, 98, 99>>

HashPwInputs == {PwStrong, PwLower, PwWeak}

\* salt strings as a damaged users.txt can hold them: empty, 10 and 30
\* characters (too short), 31 characters, and 32 characters that are not all
\* hexadecimal digits ("zz..", "1g1g..", " 1 1..", "-1-1..")
CorruptSalts ==
    { <<>>, Rep(97, 10), Rep(97, 30), Rep(97, 31), Rep(122, 32),
      [i \in 1..32 |-> IF i % 2 = 1 THEN 49 ELSE 103],
      [i \in 1..32 |-> IF i % 2 = 1 THEN 32 ELSE 49],
      [i \in 1..32 |-> IF i % 2 = 1 THEN 45 ELSE 49] }

\* a stored hash no password of the model hashes to
BogusHash == Rep(48, 2 * HashBytes)

InitHasher ==
    /\ pc = "hasher"
    /\ users = Empty
    /\ file = [exists |-> FALSE, data |-> <<>>]
    /\ out = <<>>
    /\ call \in {[op |-> "none", pw |-> p, salt |-> s, generated |-> FALSE,
                  hash |-> <<>>, hashed |-> FALSE,
                  vpw |-> <<>>, vhash |-> <<>>, kdfOk |-> TRUE] :
                     p \in HashPwInputs, s \in CorruptSalts}
    /\ ret = NoVal
    /\ first = Empty
    /\ regUser = <<>>
    /\ regPass = Empty
    /\ sodium = "ok"

CallGenerateSalt ==
    /\ pc = "hasher"
    /\ \E bytes \in RandomSalts :
          /\ ret' = generateSalt(bytes)
          /\ call' = [call EXCEPT !.op = "generateSalt", !.salt = generateSalt(bytes),
                                  !.generated = TRUE, !.hash = <<>>, !.hashed = FALSE]
    /\ UNCHANGED <<pc, users, file, out, first, regUser, regPass, sodium>>

CallHashPassword ==
    /\ pc = "hasher"
    /\ \E k \in BOOLEAN :
          LET r == hashPassword(call.pw, call.salt, k)
          IN  /\ ret' = r
              /\ call' = [call EXCEPT !.op = "hashPassword", !.kdfOk = k,
                                      !.hash = r.val, !.hashed = (r.threw = "none")]
    /\ UNCHANGED <<pc, users, file, out, first, regUser, regPass, sodium>>

CallVerifyPassword ==
    /\ pc = "hasher"
    /\ \E q \in HashPwInputs, h \in {call.hash, BogusHash}, k \in BOOLEAN :
          /\ ret' = verifyPassword(q, h, call.salt, k)
          /\ call' = [call EXCEPT !.op = "verifyPassword", !.vpw = q, !.vhash = h,
                                  !.kdfOk = k]
    /\ UNCHANGED <<pc, users, file, out, first, regUser, regPass, sodium>>

NextHasher == CallGenerateSalt \/ CallHashPassword \/ CallVerifyPassword

SpecHasher == InitHasher /\ [][NextHasher]_vars

\* ------------------------------------------------- claims on the hasher

\* the verification asked for is verifyPassword(p, h, s) with s a salt from
\* generateSalt and h what hashPassword(p, s) returned
RoundTripCall ==
    /\ call.op = "verifyPassword"
    /\ call.generated /\ call.hashed
    /\ call.vpw = call.pw /\ call.vhash = call.hash

\* C8 as stated: whenever hashPassword(p, s) returned h for a generated salt
\* s, verifyPassword(p, h, s) returns true.
C8_Original == RoundTripCall => ret.val = TRUE

\* C8 amended: verifyPassword(p, h, s) returns true when the key derivation
\* it runs itself succeeds, and false when that derivation fails.
C8_RoundTripUnlessKdfFails ==
    RoundTripCall => /\ ret.threw = "none"
                     /\ ret.val = call.kdfOk

C8_Witness == RoundTripCall /\ call.kdfOk /\ ret.val = TRUE /\ call.pw = PwStrong

\* the characters a salt can start with and still be decoded: a hexadecimal
\* digit, or the white space or sign that stoi accepts before one
HexOrLead == (48..57) \cup (97..102) \cup (65..70) \cup {32, 9, 10, 11, 12, 13, 43, 45}

\* C9: verifyPassword never lets an exception out and answers false whenever
\* the hashing it runs fails: the salt is too short, is not hexadecimal, or
\* the key derivation fails.
C9_VerifyFailsClosed ==
    call.op = "verifyPassword" =>
        /\ ret.threw = "none"
        /\ ret.val \in BOOLEAN
        /\ ~call.kdfOk => ret.val = FALSE
        /\ Len(call.salt) < 2 * 16 - 1 => ret.val = FALSE
        /\ (Len(call.salt) >= 1 /\ call.salt[1] \notin HexOrLead) => ret.val = FALSE
        /\ hashPassword(call.vpw, call.salt, call.kdfOk).threw # "none" => ret.val = FALSE

C9_Witness ==
    /\ call.op = "verifyPassword" /\ call.kdfOk
    /\ Len(call.salt) = 30 /\ ret = [threw |-> "none", val |-> FALSE]

\* ---------------------------------------------------------------- Database

\* std::string::npos, size_t(-1): adding 1 to it wraps around to 0
Npos == -1

\* s.find(ch, from), positions counted from 0: the first position at or
\* after `from' that holds ch, npos when there is none
find(s, ch, from) ==
    LET hits == {i \in from..(Len(s) - 1) : s[i + 1] = ch}
    IN  IF hits = {} THEN Npos
        ELSE CHOOSE i \in hits : \A j \in hits : i <= j

\* the lines std::getline reads from the characters of a file from position
\* i on: each ends at a newline, and characters after the last newline make
\* a last line
RECURSIVE GetLines(_, _, _)
GetLines(data, i, acc) ==
    IF i > Len(data) THEN acc
    ELSE LET ends == {j \in i..Len(data) : data[j] = Newline}
         IN  IF ends = {} THEN Append(acc, SubSeq(data, i, Len(data)))
             ELSE LET j == CHOOSE x \in ends : \A y \in ends : x <= y
                  IN  GetLines(data, j + 1, Append(acc, SubSeq(data, i, j - 1)))

\* users[key] = value
MapPut(m, key, value) ==
    [k \in (DOMAIN m) \cup {key} |-> IF k = key THEN value ELSE m[k]]

\* a load loop that leaves at the first malformed line (break for continue)
RECURSIVE LoadLines_break(_, _, _)
LoadLines_break(lines, i, m) ==
    IF i > Len(lines) THEN [threw |-> "none", val |-> m]
    ELSE LET line == lines[i]
             pos1 == find(line, Comma, 0)
             pos2 == find(line, Comma, pos1 + 1)
         IN  IF pos1 = Npos \/ pos2 = Npos THEN [threw |-> "none", val |-> m]
             ELSE LET name == substr(line, 0, pos1)
                      hash == substr(line, pos1 + 1, pos2 - pos1 - 1)
                      salt == substrFrom(line, pos2 + 1)
                  IN  IF name.threw # "none" \/ hash.threw # "none" \/ salt.threw # "none"
                      THEN [threw |-> "out_of_range", val |-> m]
                      ELSE LoadLines_break(lines, i + 1,
                                           MapPut(m, name.val, <<hash.val, salt.val>>))

\* the while (getline) loop of loadUsers from line i on, m the map so far
RECURSIVE LoadLines(_, _, _)
LoadLines(lines, i, m) ==
    IF i > Len(lines) THEN [threw |-> "none", val |-> m]
    ELSE LET line == lines[i]
             pos1 == find(line, Comma, 0)
             pos2 == find(line, Comma, pos1 + 1)
         IN  IF pos1 = Npos \/ pos2 = Npos THEN LoadLines(lines, i + 1, m)
             ELSE LET name == substr(line, 0, pos1)
                      hash == substr(line, pos1 + 1, pos2 - pos1 - 1)
                      salt == substrFrom(line, pos2 + 1)
                  IN  IF name.threw # "none" \/ hash.threw # "none" \/ salt.threw # "none"
                      THEN [threw |-> "out_of_range", val |-> m]
                      ELSE LoadLines(lines, i + 1,
                                     MapPut(m, name.val, <<hash.val, salt.val>>))

\* Database::loadUsers into the map m: nothing when the file cannot be opened
loadUsers(m, f) ==
    IF ~f.exists THEN [threw |-> "none", val |-> m]
    ELSE LoadLines(GetLines(f.data, 1, <<>>), 1, m)

\* std::string's operator< : lexicographic, a proper prefix first
RECURSIVE StrLess(_, _, _)
StrLess(a, b, i) ==
    IF i > Len(a) THEN i <= Len(b)
    ELSE IF i > Len(b) THEN FALSE
    ELSE IF a[i] # b[i] THEN a[i] < b[i]
    ELSE StrLess(a, b, i + 1)

\* what the range-for of saveUsers streams: the records in key order, each
\* as user "," hash "," salt and the newline of endl
RECURSIVE WriteRecords(_, _)
WriteRecords(m, keys) ==
    IF keys = {} THEN <<>>
    ELSE LET k == CHOOSE x \in keys : \A y \in keys \ {x} : StrLess(x, y, 1)
         IN  k \o <<Comma>> \o m[k][1] \o <<Comma>> \o m[k][2] \o <<Newline>>
               \o WriteRecords(m, keys \ {k})

\* Database::saveUsers.  io is what the file system does to the ofstream:
\* "ok"; "open_failed", the stream never opens and every << is a no-op, the
\* file stays as it was; "write_failed", the file is opened (and so
\* truncated) but the writes do not reach it.  saveUsers tests neither.
saveUsers(m, f, io) ==
    IF io = "open_failed" THEN f
    ELSE IF io = "write_failed" THEN [exists |-> TRUE, data |-> <<>>]
    ELSE [exists |-> TRUE, data |-> WriteRecords(m, DOMAIN m)]

IoOutcomes == {"ok", "open_failed", "write_failed"}

\* Database::userExists
userExists(m, username) == username \in DOMAIN m

\* Database::addUser: the return value, the map and the file after it
addUser(m, f, username, hash, salt, io) ==
    IF userExists(m, username) THEN [ret |-> FALSE, users |-> m, file |-> f]
    ELSE LET m2 == MapPut(m, username, <<hash, salt>>)
         IN  [ret |-> TRUE, users |-> m2, file |-> saveUsers(m2, f, io)]

\* a getCredentials that hands the salt back as the hash and the hash as the
\* salt
getCredentials_swapped(m, username) ==
    IF username \notin DOMAIN m THEN [found |-> FALSE, hash |-> <<>>, salt |-> <<>>]
    ELSE [found |-> TRUE, hash |-> m[username][2], salt |-> m[username][1]]

\* Database::getCredentials: found, and the hash and salt handed back
getCredentials(m, username) ==
    IF username \notin DOMAIN m THEN [found |-> FALSE, hash |-> <<>>, salt |-> <<>>]
    ELSE [found |-> TRUE, hash |-> m[username][1], salt |-> m[username][2]]

\* Database::userCount
userCount(m) == Cardinality(DOMAIN m)

\* ----------------------------------------------------------- store harness

\* a users.txt of the harness holds at most MaxFileLines lines
MaxFileLines == 2

\* "al", "bo", "cy"
NameAl == <<97, 108>>
NameBo == <<98, 111>>
NameCy == <<99, 121>>

\* lines a users.txt can hold: "al,ab,cd", "bo,12,34", "al,ff,ee,x" (al
\* again, a comma inside the salt), ",," (three empty fields), and the
\* malformed "justone" and "bo,12"
LinePool ==
    { <<97, 108, 44, 97, 98, 44, 99, 100>>,
      <<98, 111, 44, 49, 50, 44, 51, 52>>,
      <<97, 108, 44, 102, 102, 44, 101, 101, 44, 120>>,
      <<44, 44>>,
      <<106, 117, 115, 116, 111, 110, 101>>,
      <<98, 111, 44, 49, 50>> }

\* the characters of a file of these lines; the last newline may be missing
RECURSIVE JoinLines(_, _, _)
JoinLines(lines, i, lastNewline) ==
    IF i > Len(lines) THEN <<>>
    ELSE lines[i] \o (IF i < Len(lines) \/ lastNewline THEN <<Newline>> ELSE <<>>)
           \o JoinLines(lines, i + 1, lastNewline)

InitialFiles ==
    {[exists |-> FALSE, data |-> <<>>]} \cup
    {[exists |-> TRUE, data |-> JoinLines(ls, 1, nl)] :
        ls \in SeqsUpTo(LinePool, MaxFileLines), nl \in BOOLEAN}

\* the credentials addUser is given: a hash and a salt as registration makes
\* them
HarnessCreds ==
    {<<hashPassword(p, generateSalt(b), TRUE).val, generateSalt(b)>> :
        p \in {PwStrong}, b \in RandomSalts}

InitStore ==
    /\ pc = "store_start"
    /\ users = Empty
    /\ file \in InitialFiles
    /\ out = <<>>
    /\ call = [op |-> "none"]
    /\ ret = NoVal
    /\ first = Empty
    /\ regUser = <<>>
    /\ regPass = Empty
    /\ sodium = "ok"

CallLoadUsers ==
    /\ pc = "store_start"
    /\ LET r == loadUsers(users, file)
       IN  /\ users' = r.val
           /\ ret' = r.threw
           /\ pc' = IF r.threw = "none" THEN "store" ELSE "store_aborted"
    /\ call' = [op |-> "loadUsers"]
    /\ UNCHANGED <<file, out, first, regUser, regPass, sodium>>

CallAddUser ==
    /\ pc = "store"
    /\ \E u \in {NameAl, NameCy}, c \in HarnessCreds, io \in IoOutcomes :
          LET r == addUser(users, file, u, c[1], c[2], io)
          IN  /\ users' = r.users
              /\ file' = r.file
              /\ ret' = r.ret
              /\ first' = IF r.ret THEN MapPut(first, u, c) ELSE first
              /\ call' = [op |-> "addUser", username |-> u, hash |-> c[1], salt |-> c[2],
                          io |-> io, again |-> u \in DOMAIN first,
                          usersBefore |-> users, fileBefore |-> file]
    /\ UNCHANGED <<pc, out, regUser, regPass, sodium>>

CallSaveUsers ==
    /\ pc = "store"
    /\ \E io \in IoOutcomes :
          /\ file' = saveUsers(users, file, io)
          /\ call' = [op |-> "saveUsers", io |-> io]
    /\ ret' = NoVal
    /\ UNCHANGED <<pc, users, out, first, regUser, regPass, sodium>>

NextStore == CallLoadUsers \/ CallAddUser \/ CallSaveUsers

SpecStore == InitStore /\ [][NextStore]_vars

\* -------------------------------------------------- claims on the store

\* the mapping a fresh (empty) store gets from loading the backing file
OnDisk == loadUsers(Empty, file).val

\* C1 as stated: once add(u, h, s) has returned true, u exists and its lookup
\* is (h, s), in memory and in the backing file; a later add of the same u
\* returns false, leaves that record and leaves the count.
C1_Claim ==
    pc = "store" =>
        /\ \A u \in DOMAIN first :
              /\ userExists(users, u)
              /\ getCredentials(users, u) =
                    [found |-> TRUE, hash |-> first[u][1], salt |-> first[u][2]]
              /\ u \in DOMAIN OnDisk /\ OnDisk[u] = first[u]
        /\ (call.op = "addUser" /\ call.again) =>
              /\ ret = FALSE
              /\ userCount(users) = userCount(call.usersBefore)

\* auxiliary, the in-memory half of C1: the record of a successful add stays, a repeated add is refused
\* and changes neither the map nor the file
C1_InMemory ==
    pc = "store" =>
        /\ \A u \in DOMAIN first :
              /\ userExists(users, u)
              /\ getCredentials(users, u) =
                    [found |-> TRUE, hash |-> first[u][1], salt |-> first[u][2]]
        /\ (call.op = "addUser" /\ call.again) =>
              /\ ret = FALSE
              /\ users = call.usersBefore /\ file = call.fileBefore

\* C2 as stated: an add that returned true has flushed the whole mapping, so
\* the records of the backing file are the in-memory mapping.
C2_Claim ==
    (call.op = "addUser" /\ ret = TRUE) => (file.exists /\ OnDisk = users)

\* C3 as stated: after saveUsers, loadUsers into a fresh store yields the
\* mapping that was saved.
C3_Claim ==
    call.op = "saveUsers" => OnDisk = users

\* auxiliary, the encoding alone: what saveUsers streams for
\* the mapping, read back by the load loop, is the mapping
C3_Encoding ==
    pc = "store" =>
        LoadLines(GetLines(WriteRecords(users, DOMAIN users), 1, <<>>), 1, Empty).val = users

\* the lines of the file and the fields of a line, read off the text
CommasOf(line) == {i \in 1..Len(line) : line[i] = 44}
WellFormed(line) == Cardinality(CommasOf(line)) >= 2
Comma1(line) == CHOOSE i \in CommasOf(line) : \A j \in CommasOf(line) : i <= j
Comma2(line) ==
    CHOOSE i \in CommasOf(line) \ {Comma1(line)} :
        \A j \in CommasOf(line) \ {Comma1(line)} : i <= j
NameOf(line) == SubSeq(line, 1, Comma1(line) - 1)
HashOf(line) == SubSeq(line, Comma1(line) + 1, Comma2(line) - 1)
SaltOf(line) == SubSeq(line, Comma2(line) + 1, Len(line))
FileLines == IF file.exists THEN GetLines(file.data, 1, <<>>) ELSE <<>>
GoodLines == {i \in 1..Len(FileLines) : WellFormed(FileLines[i])}

\* C4: load never aborts; a line with fewer than two commas gives no record
\* and is not counted; every well-formed line is loaded as (username, hash,
\* salt), wherever malformed lines stand (of two lines with one username the
\* later one is the record); without a file the store is empty, count 0.
C4_LoadSkipsMalformed ==
    call.op = "loadUsers" =>
        /\ ret = "none" /\ pc = "store"
        /\ DOMAIN users = {NameOf(FileLines[i]) : i \in GoodLines}
        /\ userCount(users) = Cardinality({NameOf(FileLines[i]) : i \in GoodLines})
        /\ \A i \in GoodLines :
              (\A j \in GoodLines : j > i => NameOf(FileLines[j]) # NameOf(FileLines[i]))
                 => users[NameOf(FileLines[i])] = <<HashOf(FileLines[i]), SaltOf(FileLines[i])>>
        /\ ~file.exists => (users = Empty /\ userCount(users) = 0)

\* a malformed line first, a well-formed line after it: one record
C4_Witness ==
    /\ call.op = "loadUsers"
    /\ Len(FileLines) = 2 /\ GoodLines = {2}
    /\ userCount(users) = 1
    /\ NameBo \in DOMAIN users
    /\ users[NameBo] = <<(<<49, 50>>), (<<51, 52>>)>>

\* --------------------------------------------------------------------- User

StrengthWarnBelow == 70
StrengthExcellentFrom == 90

\* User::setPassword(pw), `confirm' what is typed at "Confirm password: "
\* (asked only when the strength check passed)
setPassword(pw, confirm) ==
    LET chk == checkStrength(pw)
        strength == calculateStrengthPercentage(pw)
        note == IF strength < StrengthWarnBelow THEN <<"Password could be stronger">>
                ELSE IF strength >= StrengthExcellentFrom THEN <<"Excellent password!">>
                ELSE <<>>
    IN  IF ~chk.ok THEN [ok |-> FALSE, msgs |-> chk.msgs]
        ELSE IF pw # confirm
             THEN [ok |-> FALSE, msgs |-> chk.msgs \o note \o <<"Passwords don't match">>]
        ELSE [ok |-> TRUE, msgs |-> chk.msgs \o note]

\* ------------------------------------------------------------- the program

\* "a!": not alphanumeric
NameBad == <<97, 33>>

\* what users.txt can hold when the program starts: no file, an empty file,
\* al registered earlier with "Str0ng!Passw0rd" followed by a malformed line,
\* and a damaged record of bo whose salt lost its last two characters
StartFiles ==
    LET b == CHOOSE x \in RandomSalts : TRUE
        s == generateSalt(b)
        h == hashPassword(PwStrong, s, TRUE).val
        alLine == NameAl \o <<Comma>> \o h \o <<Comma>> \o s
        boLine == NameBo \o <<Comma>> \o h \o <<Comma>> \o SubSeq(s, 1, 30)
    IN  { [exists |-> FALSE, data |-> <<>>],
          [exists |-> TRUE, data |-> <<>>],
          [exists |-> TRUE, data |-> alLine \o <<Newline>> \o <<106, 117, 115, 116>> \o <<Newline>>],
          [exists |-> TRUE, data |-> boLine \o <<Newline>>] }

TypedNames == {<<>>, NameAl, NameBo, NameBad}
TypedPasswords == {<<>>, PwWeak, PwStrong, PwLower, PwOther}

Init ==
    /\ pc = "start"
    /\ users = Empty
    /\ file \in StartFiles
    /\ out = <<>>
    /\ call = [op |-> "none"]
    /\ ret = NoVal
    /\ first = Empty
    /\ regUser = <<>>
    /\ regPass = Empty
    /\ sodium = "uninit"

\* a main that does not return when initialize() fails: it loads the store
\* and goes on to the menu
Startup_ignoresFailure ==
    /\ pc = "start"
    /\ \E initOk \in BOOLEAN :
          LET r == loadUsers(users, file)
          IN  /\ call' = [op |-> "startup", initOk |-> initOk]
              /\ out' = IF initOk THEN <<>> ELSE <<"Libsodium init failed">>
              /\ users' = r.val
              /\ pc' = IF r.threw = "none" THEN "menu" ELSE "terminated"
              /\ ret' = NoVal
              /\ sodium' = IF initOk THEN "ok" ELSE "failed"
    /\ UNCHANGED <<file, first, regUser, regPass>>

\* main, lines 579-580: initialize(), then loadUsers(); initOk is whether
\* sodium_init() returned >= 0
Startup ==
    /\ pc = "start"
    /\ \E initOk \in BOOLEAN :
          /\ call' = [op |-> "startup", initOk |-> initOk]
          /\ IF ~initOk
             THEN /\ out' = <<"Libsodium init failed">>
                  /\ pc' = "exited"
                  /\ ret' = 1
                  /\ users' = users
                  /\ sodium' = "failed"
             ELSE LET r == loadUsers(users, file)
                  IN  /\ out' = <<>>
                      /\ users' = r.val
                      /\ pc' = IF r.threw = "none" THEN "menu" ELSE "terminated"
                      /\ ret' = NoVal
                      /\ sodium' = "ok"
    /\ UNCHANGED <<file, first, regUser, regPass>>

\* main: cin >> choice fails on input that is not a number
MenuInvalidInput ==
    /\ pc = "menu"
    /\ out' = <<"Invalid input">>
    /\ call' = [op |-> "menu", choice |-> "not a number"]
    /\ UNCHANGED <<pc, users, file, ret, first, regUser, regPass, sodium>>

\* main: case 3 and default of the switch (cases 1 and 2 are Login and
\* RegisterUsername)
MenuChoice ==
    /\ pc = "menu"
    /\ \E choice \in {0, 3, 4} :
          /\ call' = [op |-> "menu", choice |-> choice]
          /\ IF choice = 3
             THEN /\ out' = <<"Goodbye!">>
                  /\ pc' = "exited"
                  /\ ret' = 0
             ELSE /\ out' = <<"Invalid choice">>
                  /\ pc' = pc
                  /\ ret' = ret
    /\ UNCHANGED <<users, file, first, regUser, regPass, sodium>>

\* a loginScreen that looks the username up with users[username], which
\* inserts an empty record for a username the map does not hold
Login_insertsOnLookup ==
    /\ pc = "menu"
    /\ \E username \in TypedNames :
          LET cred == getCredentials(users, username)
          IN  IF username = <<>>
              THEN /\ out' = <<"Username required">> /\ pc' = "menu"
                   /\ call' = [op |-> "login", username |-> username, hashed |-> FALSE]
                   /\ users' = users
              ELSE IF ~cred.found
              THEN /\ out' = <<"User not found">> /\ pc' = "menu"
                   /\ call' = [op |-> "login", username |-> username, hashed |-> FALSE]
                   /\ users' = MapPut(users, username, <<<<>>, <<>>>>)
              ELSE \E password \in TypedPasswords, kdfOk \in BOOLEAN :
                      LET v == verifyPassword(password, cred.hash, cred.salt, kdfOk)
                      IN  /\ call' = [op |-> "login", username |-> username,
                                      password |-> password, kdfOk |-> kdfOk,
                                      hashed |-> TRUE]
                          /\ users' = users
                          /\ IF v.threw # "none"
                             THEN out' = <<>> /\ pc' = "terminated"
                             ELSE IF v.val
                             THEN out' = <<"Login successful!">> /\ pc' = "menu"
                             ELSE out' = <<"Invalid credentials">> /\ pc' = "menu"
    /\ UNCHANGED <<file, ret, first, regUser, regPass, sodium>>

\* menu choice 1: loginScreen from its first to its last line.  An empty
\* username returns before the password is asked; for a username the store
\* does not hold the password typed is read and never used.  kdfOk is whether
\* crypto_pwhash succeeds inside verifyPassword, `hashed' whether the step
\* reached hashPassword
Login ==
    /\ pc = "menu"
    /\ \E username \in TypedNames :
          LET cred == getCredentials(users, username)
          IN  IF username = <<>>
              THEN /\ out' = <<"Username required">> /\ pc' = "menu"
                   /\ call' = [op |-> "login", username |-> username, hashed |-> FALSE]
              ELSE IF ~cred.found
              THEN /\ out' = <<"User not found">> /\ pc' = "menu"
                   /\ call' = [op |-> "login", username |-> username, hashed |-> FALSE]
              ELSE \E password \in TypedPasswords, kdfOk \in BOOLEAN :
                      LET v == verifyPassword(password, cred.hash, cred.salt, kdfOk)
                      IN  /\ call' = [op |-> "login", username |-> username,
                                      password |-> password, kdfOk |-> kdfOk,
                                      hashed |-> TRUE]
                          /\ IF v.threw # "none"
                             THEN out' = <<>> /\ pc' = "terminated"
                             ELSE IF v.val
                             THEN out' = <<"Login successful!">> /\ pc' = "menu"
                             ELSE out' = <<"Invalid credentials">> /\ pc' = "menu"
    /\ UNCHANGED <<users, file, ret, first, regUser, regPass, sodium>>

\* menu choice 2: registrationScreen up to its password loop
RegisterUsername ==
    /\ pc = "menu"
    /\ \E username \in TypedNames :
          /\ call' = [op |-> "registerUsername", username |-> username]
          /\ IF username = <<>>
             THEN out' = <<"Username required">> /\ pc' = "menu" /\ regUser' = regUser
             ELSE IF \E i \in 1..Len(username) : ~isalnum(username[i])
             THEN /\ out' = <<"Only alphanumeric characters allowed">>
                  /\ pc' = "menu" /\ regUser' = regUser
             ELSE IF userExists(users, username)
             THEN out' = <<"Username already taken">> /\ pc' = "menu" /\ regUser' = regUser
             ELSE out' = <<>> /\ pc' = "regPassword" /\ regUser' = username
    /\ UNCHANGED <<users, file, ret, first, regPass, sodium>>

\* registrationScreen: one round of the password loop and, when the password
\* is set, the rest of the function: generateSalt, hashPassword, addUser.
\* The confirmation is asked only of a password that passed checkStrength.
\* hashPassword's runtime_error is caught nowhere (neither here nor in main),
\* so it ends the process through std::terminate.
RegisterPassword ==
    /\ pc = "regPassword"
    /\ \E pw \in TypedPasswords :
          IF pw = <<>>
          THEN /\ out' = <<"Password cannot be empty">>
               /\ call' = [op |-> "registerPassword", username |-> regUser,
                           password |-> pw, hashed |-> FALSE]
               /\ UNCHANGED <<pc, users, file, first, regUser, regPass>>
          ELSE IF ~checkStrength(pw).ok
          THEN /\ out' = setPassword(pw, pw).msgs
               /\ call' = [op |-> "registerPassword", username |-> regUser,
                           password |-> pw, hashed |-> FALSE]
               /\ UNCHANGED <<pc, users, file, first, regUser, regPass>>
          ELSE \E confirm \in TypedPasswords :
                LET set == setPassword(pw, confirm)
                IN  IF ~set.ok
                    THEN /\ out' = set.msgs
                         /\ call' = [op |-> "registerPassword", username |-> regUser,
                                     password |-> pw, confirm |-> confirm,
                                     hashed |-> FALSE]
                         /\ UNCHANGED <<pc, users, file, first, regUser, regPass>>
                    ELSE \E bytes \in RandomSalts, kdfOk \in BOOLEAN, io \in IoOutcomes :
                      LET salt == generateSalt(bytes)
                          h == hashPassword(pw, salt, kdfOk)
                          a == addUser(users, file, regUser, h.val, salt, io)
                      IN  /\ call' = [op |-> "registerPassword", username |-> regUser,
                                      password |-> pw, confirm |-> confirm,
                                      kdfOk |-> kdfOk, io |-> io, hashed |-> TRUE]
                          /\ IF h.threw # "none"
                             THEN /\ out' = set.msgs
                                  /\ pc' = "terminated"
                                  /\ UNCHANGED <<users, file, first, regUser, regPass>>
                             ELSE /\ out' = set.msgs \o
                                        (IF a.ret THEN <<"Account created successfully!">>
                                         ELSE <<"Account creation failed">>)
                                  /\ users' = a.users
                                  /\ file' = a.file
                                  /\ first' = IF a.ret
                                              THEN MapPut(first, regUser, <<h.val, salt>>)
                                              ELSE first
                                  /\ regPass' = IF a.ret THEN MapPut(regPass, regUser, pw)
                                                ELSE regPass
                                  /\ pc' = "menu"
                                  /\ regUser' = <<>>
    /\ UNCHANGED <<ret, sodium>>

Next ==
    \/ Startup
    \/ MenuInvalidInput
    \/ MenuChoice
    \/ Login
    \/ RegisterUsername
    \/ RegisterPassword

Spec == Init /\ [][Next]_vars

\* ------------------------------------------------ claims on the program

\* C10 as stated: once startup initialization succeeded the process ends only
\* through menu choice 3; no failure of a login or of a registration (a
\* key-derivation failure included) ends it.
C10_Claim ==
    pc \in {"exited", "terminated"} =>
        \/ call.op = "startup" /\ ~call.initOk
        \/ call.op = "menu" /\ call.choice = 3

\* the login just made names a user registered in this run
LoginOfRegistered == call.op = "login" /\ call.username \in DOMAIN regPass

\* every user registered in this run is held with the hash of the registered
\* password under the salt held beside it
StoredHashIsOfPassword ==
    \A u \in DOMAIN regPass :
        /\ u \in DOMAIN users
        /\ users[u][1] = HexEncode(crypto_pwhash(regPass[u], DecodeSalt(users[u][2], 0, <<>>).val))

\* a login with a typed username the store does not hold says "User not
\* found"
UnknownIsNotFound ==
    (call.op = "login" /\ call.username # <<>> /\ call.username \notin DOMAIN users)
        => out = <<"User not found">>

\* the same without the exception of the empty username, which loginScreen
\* refuses with "Username required" before it looks anything up
AnyUnknownIsNotFound ==
    (call.op = "login" /\ call.username \notin DOMAIN users)
        => out = <<"User not found">>

\* C11 as stated: after a successful registration of u with p the stored hash
\* of u stays the hash of p under the stored salt, a login (u, q) succeeds
\* exactly when q = p and otherwise says "Invalid credentials", and a login
\* with an unknown username says "User not found".
C11_Original ==
    /\ StoredHashIsOfPassword
    /\ LoginOfRegistered =>
          IF call.password = regPass[call.username]
          THEN out = <<"Login successful!">>
          ELSE out = <<"Invalid credentials">>
    /\ AnyUnknownIsNotFound

\* C11 amended: after a successful registration of u with p the stored hash
\* of u stays the hash of p under the stored salt; a login (u, q) succeeds
\* exactly when q = p and the key derivation run by the verification
\* succeeds; with q # p, or with that derivation failing, it says "Invalid
\* credentials"; a login with a non-empty username the store does not hold
\* says "User not found".
C11_LoginMatchesRegistration ==
    /\ StoredHashIsOfPassword
    /\ LoginOfRegistered =>
          IF call.password = regPass[call.username] /\ call.kdfOk
          THEN out = <<"Login successful!">>
          ELSE out = <<"Invalid credentials">>
    /\ UnknownIsNotFound

\* al registered with "Str0ng!Passw0rd", and a later login of al with the
\* case-altered "str0ng!passw0rd" refused
C11_Witness ==
    /\ LoginOfRegistered
    /\ regPass[call.username] = PwStrong
    /\ call.password = PwLower /\ call.kdfOk
    /\ out = <<"Invalid credentials">>

\* ---------------------------------------------------------------------
\* Startup initialisation and the frame of the store, on the program

\* a step of the menu loop has run: a menu choice, a login or a registration
\* step
WorkflowStepRan ==
    call.op \in {"menu", "login", "registerUsername", "registerPassword"}

\* the last step reached hashPassword, directly (registration) or through
\* verifyPassword (login)
HashingStepRan ==
    call.op \in {"login", "registerPassword"} /\ call.hashed

\* C12: when initialize() fails the process has exited with status 1 with
\* the store not loaded and no menu, login, registration, hashing or
\* verification step run; and whenever such a step has run, and in
\* particular whenever hashPassword or verifyPassword has been called,
\* initialize() had succeeded before.
C12_InitGuardsEverything ==
    /\ sodium = "failed" =>
          /\ pc = "exited" /\ ret = 1
          /\ users = Empty /\ first = Empty /\ regPass = Empty
          /\ call.op = "startup"
          /\ out = <<"Libsodium init failed">>
    /\ WorkflowStepRan => sodium = "ok"
    /\ HashingStepRan => sodium = "ok"
    /\ pc \in {"menu", "regPassword"} => sodium = "ok"

\* initialize() failed with records waiting in users.txt: the process has
\* exited with status 1 and loaded none of them
C12_Witness ==
    /\ sodium = "failed"
    /\ pc = "exited" /\ ret = 1
    /\ file.exists /\ find(file.data, Comma, 1) # Npos
    /\ users = Empty

\* the last step was a registration that reported the account created
RegistrationSucceeded ==
    /\ call.op = "registerPassword"
    /\ Len(out) >= 1
    /\ out[Len(out)] = "Account created successfully!"

\* C13: after startup only a successful registration changes the store:
\* every other step, that is every login (successful, wrong password,
\* unknown or empty username), every registration step that fails (empty,
\* non-alphanumeric or taken username, refused password, failed hashing) and
\* every menu choice, leaves the in-memory mapping, userCount() and
\* users.txt as they were.
C13_OnlySuccessfulRegistrationWrites ==
    [][(pc # "start" /\ ~RegistrationSucceeded')
          => /\ users' = users
             /\ userCount(users') = userCount(users)
             /\ file' = file]_vars

\* a registration of a new username has just stopped at a failed key
\* derivation, with another user's record in the store and in users.txt
C13_Witness ==
    /\ call.op = "registerPassword" /\ call.hashed /\ ~call.kdfOk
    /\ pc = "terminated"
    /\ userCount(users) >= 1
    /\ call.username \notin DOMAIN users
    /\ file.exists /\ file.data # <<>>

====
